---- MODULE Spec2Model ----
(***************************************************************************)
(* Signal matrix of the trade-signal dashboard: UI.renderSignalMatrix and  *)
(* UI.calculateStreak (static/ui.js), with the streak scans of the older   *)
(* page script and of static/strategypool.js; the stock selector and       *)
(* loadData of static/tradesignal.js with overlapping requests (SpecLoad); *)
(* loadData and renderMatrix of the older page script (SpecLegacy).        *)
(*                                                                         *)
(* Values of the payload:                                                  *)
(*   an optional value is <<>> (undefined / null) or <<v>>;                *)
(*   a string that is compared or split (a bar's date) is the sequence of  *)
(*   its character codes; numbers are integers: annual_return in percent,  *)
(*   close in thousandths, a formatted price in hundredths.                *)
(***************************************************************************)
EXTENDS Integers, Sequences, FiniteSets, TLC

VARIABLES
    signals,            \* the argument of renderSignalMatrix: result["signal"] of the fetch
    headerRow,          \* the columns updateTableHeader appended to #headerRow / #statsRow
    currentDataStore,   \* UI.currentDataStore
    matrixBody,         \* the rows of #matrixBody
    pc,                 \* "fetched": the response is in, renderSignalMatrix not yet called;
                        \* "rendered": the call has returned; "caught": the catch block ran;
                        \* "idle": no response has been handled yet
    currentSymbol,      \* the global currentSymbol of the page script
    inflight,           \* the symbols of the loadData calls that await their response
    loadingTxt,         \* whether #loadingTxt is shown
    kellySymbol,        \* the symbol renderReport wrote to #kellySymbol
    errorLogged,        \* whether a catch block has written to console.error
    streakResult,       \* the outcome of the latest call of calculateStreak from outside
    inputValue,         \* SearchComponent.input.value
    isComposing,        \* SearchComponent.isComposing
    debounceTimer,      \* the timer of SearchComponent.debounceTimer, while it is armed
    sinceInput,         \* the time since the latest input event, in ticks, capped
    pendingSearches,    \* the queries whose search request awaits its response
    boxItems,           \* the .suggestion-item elements of the suggestion box
    boxDisplay,         \* SearchComponent.box.style.display
    selectedIndex,      \* SearchComponent.selectedIndex
    history,            \* localStorage['stock_search_history'], when the key is set
    savedStock,         \* the argument of the latest saveHistory call
    keyEvent            \* e.key when the latest step handled a keydown event, else ""

searchVars == <<inputValue, isComposing, debounceTimer, sinceInput, pendingSearches,
                boxItems, boxDisplay, selectedIndex, history, savedStock, keyEvent>>
vars == <<signals, headerRow, currentDataStore, matrixBody, pc,
          currentSymbol, inflight, loadingTxt, kellySymbol, errorLogged,
          streakResult, searchVars>>
pageVars == <<currentSymbol, inflight, loadingTxt, kellySymbol, errorLogged>>

----------------------------------------------------------------------------
(* Bounds of the input families *)

MaxStrat == 3       \* ranking family: series per payload
MaxBars == 2        \* merge family: bars of the first series
MaxDay == 5         \* streak family: calendar days covered
MaxInflight == 2    \* loadData calls that await their response at one time

----------------------------------------------------------------------------
(* JavaScript values *)

None == <<>>
Some(x) == <<x>>

\* x || 0 on a number that may be null or undefined
OrZero(opt) == IF opt = None THEN 0 ELSE opt[1]

\* Array.isArray(x) on an optional array
IsArray(opt) == opt # None

MinStreak == 3
StrongStreak == 5
CONFIG == [minStreak |-> MinStreak, strong_Streak |-> StrongStreak]

TChar == 84         \* 'T'

\* a string is the sequence of its character codes; the two values that are
\* no strings, for a date that is missing or null, are kept apart from them
Undefined == <<-1>>
Null == <<-2>>

\* typeof v === "string"
isString(v) == v = <<>> \/ Head(v) >= 0

\* String(v), the text a property key or a localeCompare argument is made of
dateText(v) ==
    IF v = Undefined THEN <<117, 110, 100, 101, 102, 105, 110, 101, 100>>
    ELSE IF v = Null THEN <<110, 117, 108, 108>>
    ELSE v

\* s.split('T')[0]: the characters before the first 'T'
RECURSIVE splitT0(_)
splitT0(s) ==
    IF s = <<>> \/ Head(s) = TChar THEN <<>>
    ELSE <<Head(s)>> \o splitT0(Tail(s))

\* a.localeCompare(b) on strings of digits, '-', '/' and small letters, which
\* collate in the order of their codes: -1, 0 or 1
RECURSIVE localeCompare(_, _)
localeCompare(a, b) ==
    IF a = <<>> /\ b = <<>> THEN 0
    ELSE IF a = <<>> THEN -1
    ELSE IF b = <<>> THEN 1
    ELSE IF Head(a) < Head(b) THEN -1
    ELSE IF Head(a) > Head(b) THEN 1
    ELSE localeCompare(Tail(a), Tail(b))

\* Number(x).toFixed(2): thousandths rounded to hundredths
toFixed2(thousandths) == (thousandths + 5) \div 10

----------------------------------------------------------------------------
(* UI.renderSignalMatrix, step 1 and 2: the strategy objects and their rank *)

toStrategy(item) ==
    [key  |-> item.strategy_class,
     name |-> IF item.strategy_name # "" THEN item.strategy_name
              ELSE item.strategy_class,
     perf |-> item.perf]

\* (s.perf?.annual_return || 0)
annualReturnOrZero(s) ==
    IF s.perf = None THEN 0 ELSE OrZero(s.perf[1].annual_return)

\* variant: the operands of the comparator exchanged
compareStrategiesAscending(a, b) == annualReturnOrZero(a) - annualReturnOrZero(b)

\* the comparator of strategies.sort
compareStrategies(a, b) == annualReturnOrZero(b) - annualReturnOrZero(a)

\* variant: an unstable sort, which lets x overtake the elements it ties with
RECURSIVE insertStrategyBeforeTies(_, _)
insertStrategyBeforeTies(sorted, x) ==
    IF sorted = <<>> THEN <<x>>
    ELSE IF annualReturnOrZero(x) >= annualReturnOrZero(Head(sorted))
         THEN <<x>> \o sorted
    ELSE <<Head(sorted)>> \o insertStrategyBeforeTies(Tail(sorted), x)

\* Array.prototype.sort is stable: x is placed before the first element that
\* the comparator orders after it, behind every element it ties with
RECURSIVE insertStrategy(_, _)
insertStrategy(sorted, x) ==
    IF sorted = <<>> THEN <<x>>
    ELSE IF compareStrategies(Head(sorted), x) > 0 THEN <<x>> \o sorted
    ELSE <<Head(sorted)>> \o insertStrategy(Tail(sorted), x)

\* variant: the sort left out
sortStrategiesOmitted(seq) == seq

RECURSIVE sortStrategies(_)
sortStrategies(seq) ==
    IF seq = <<>> THEN <<>>
    ELSE insertStrategy(sortStrategies(SubSeq(seq, 1, Len(seq) - 1)), seq[Len(seq)])

rankStrategies(list) == sortStrategies([i \in 1..Len(list) |-> toStrategy(list[i])])

----------------------------------------------------------------------------
(* UI.renderSignalMatrix, step 3: matrixMap.  The object is kept as the      *)
(* sequence of its values in insertion order, which is the order of        *)
(* Object.values for keys that are not array indices.                      *)

StrategyClass(i) == <<"A", "B", "C", "D", "E", "F">>[i]
StrategyKeys == {StrategyClass(i) : i \in 1..6}

\* variant: the date taken as it comes, time of day included
barDateRaw(bar) == bar.date

\* the date a bar is filed under
barDate(bar) == IF isString(bar.date) THEN splitT0(bar.date) ELSE bar.date

\* variant: the code read by its sign
decodeSignalBySign(code) ==
    IF code # None /\ code[1] >= 1 THEN "BUY"
    ELSE IF code # None /\ code[1] <= -1 THEN "SELL"
    ELSE "HOLD"

decodeSignal(code) ==
    IF code = Some(1) THEN "BUY"
    ELSE IF code = Some(-1) THEN "SELL"
    ELSE "HOLD"

\* the older page script: item.signal == 1, item.signal == -1 on a number
\* or a missing value, then signal || "HOLD"
decodeSignalLegacy(code) ==
    LET signal == IF code # None /\ code[1] = 1 THEN "BUY"
                  ELSE IF code # None /\ code[1] = -1 THEN "SELL"
                  ELSE "HOLD"
    IN  IF signal = "" THEN "HOLD" ELSE signal

\* a property that was never written reads as undefined
newRow(date, bar) ==
    [date    |-> date,
     price   |-> toFixed2(OrZero(bar.close)),
     signals |-> [k \in StrategyKeys |-> "undefined"]]

\* matrixMap[date]: the property whose key is the text of the date
rowOf(map, date) ==
    IF \E i \in 1..Len(map) : dateText(map[i].date) = dateText(date)
    THEN CHOOSE i \in 1..Len(map) : dateText(map[i].date) = dateText(date)
    ELSE 0

\* the body of equity_df.forEach
addBar(map, strategyKey, bar) ==
    LET date == barDate(bar)
        m1 == IF rowOf(map, date) = 0 THEN Append(map, newRow(date, bar)) ELSE map
        i == rowOf(m1, date)
    IN  [m1 EXCEPT ![i].signals[strategyKey] = decodeSignal(bar.signal)]

RECURSIVE addBars(_, _, _)
addBars(map, strategyKey, bars) ==
    IF bars = <<>> THEN map
    ELSE addBars(addBar(map, strategyKey, Head(bars)), strategyKey, Tail(bars))

\* the series whose bars are filed under the strategy at position idx of the
\* ranked list: signals[idx], the element at that position of the argument
seriesAt(list, idx) == list[idx]

\* strategies.forEach(({key}, idx) => ...), from position idx on
RECURSIVE buildMatrixMap(_, _, _, _)
buildMatrixMap(map, strategies, list, idx) ==
    IF idx > Len(strategies) THEN map
    ELSE LET equity_df == seriesAt(list, idx).equity_df
             next == IF ~ IsArray(equity_df) THEN map
                     ELSE addBars(map, strategies[idx].key, equity_df[1])
         IN  buildMatrixMap(next, strategies, list, idx + 1)

----------------------------------------------------------------------------
(* step 4: the rows in descending date order *)

\* variant: the operands of the comparator exchanged
compareRowsAscending(a, b) == localeCompare(dateText(a.date), dateText(b.date))

\* b.date.localeCompare(a.date), where b.date is a string
compareRows(a, b) == localeCompare(dateText(b.date), dateText(a.date))

RECURSIVE insertRow(_, _)
insertRow(sorted, x) ==
    IF sorted = <<>> THEN <<x>>
    ELSE IF compareRows(Head(sorted), x) > 0 THEN <<x>> \o sorted
    ELSE <<Head(sorted)>> \o insertRow(Tail(sorted), x)

RECURSIVE sortRows(_)
sortRows(seq) ==
    IF seq = <<>> THEN <<>>
    ELSE insertRow(sortRows(SubSeq(seq, 1, Len(seq) - 1)), seq[Len(seq)])

\* how the sort of the rows can end.  b.date.localeCompare raises a TypeError
\* when b.date is no string, and which of two rows is handed over as b is
\* the choice of the engine.  Two rows that are neighbours in the sorted
\* order are compared with each other by every engine, so the sort raises
\* for certain when neither of two such rows has a string as its date, and
\* it may raise or return when a row without one has strings around it.
rowsSortOutcomes(map) ==
    LET sorted == sortRows(map) IN
    IF \A i \in 1..Len(map) : isString(map[i].date) THEN {"returned"}
    ELSE IF Len(map) < 2 THEN {"returned"}
    ELSE IF \E i \in 1..(Len(sorted) - 1) :
               ~ isString(sorted[i].date) /\ ~ isString(sorted[i + 1].date)
         THEN {"TypeError"}
    ELSE {"returned", "TypeError"}

----------------------------------------------------------------------------
(* UI.calculateStreak; rowIndex counts from 0, store[i + 1] is row i *)

RECURSIVE streakFrom(_, _, _, _, _)
streakFrom(store, sig, i, strategyKey, streak) ==
    IF i < Len(store) /\ store[i + 1].signals[strategyKey] = sig
    THEN streakFrom(store, sig, i + 1, strategyKey, streak + 1)
    ELSE streak

\* variant: the scan started at rowIndex itself
calculateStreakFromSelf(store, sig, rowIndex, strategyKey) ==
    streakFrom(store, sig, rowIndex, strategyKey, 1)

calculateStreak(store, sig, rowIndex, strategyKey) ==
    streakFrom(store, sig, rowIndex + 1, strategyKey, 1)

\* calculateStreak of the older page script: HOLD is not scanned
calculateStreakLegacy(store, sig, rowIndex, stratName) ==
    IF sig = "HOLD" THEN 1
    ELSE streakFrom(store, sig, rowIndex + 1, stratName, 1)

\* calculateStreak of static/strategypool.js
calculateStreakPool(store, sig, rowIndex, stratName) ==
    streakFrom(store, sig, rowIndex + 1, stratName, 1)

----------------------------------------------------------------------------
(* step 5: the cells.  The markers are named: "fire" is the flame prefix,   *)
(* "sparkles" the sparkle prefix.                                          *)

\* row.signals[key] || 'HOLD'
cellSignal(row, key) ==
    IF row.signals[key] = "undefined" THEN "HOLD" ELSE row.signals[key]

\* variant: the alert derived for every row
isAlertAnyRow(rowIndex, sig, streak) ==
    sig # "HOLD" /\ streak >= CONFIG.minStreak

isAlert(rowIndex, sig, streak) ==
    rowIndex = 0 /\ sig # "HOLD" /\ streak >= CONFIG.minStreak

alertClassOf(rowIndex, sig, streak) ==
    IF isAlert(rowIndex, sig, streak)
    THEN (IF sig = "BUY" THEN "pulse-buy" ELSE "pulse-sell")
    ELSE ""

\* variant: the strong threshold missed by one
prefixOfStrict(rowIndex, sig, streak) ==
    IF isAlert(rowIndex, sig, streak)
    THEN (IF streak > CONFIG.strong_Streak THEN "fire" ELSE "sparkles")
    ELSE ""

prefixOf(rowIndex, sig, streak) ==
    IF isAlert(rowIndex, sig, streak)
    THEN (IF streak >= CONFIG.strong_Streak THEN "fire" ELSE "sparkles")
    ELSE ""

renderCell(store, rowIndex, key) ==
    LET sig == cellSignal(store[rowIndex + 1], key)
        streak == calculateStreak(store, sig, rowIndex, key)
    IN  [key        |-> key,
         sig        |-> sig,
         streak     |-> streak,
         alertClass |-> alertClassOf(rowIndex, sig, streak),
         prefix     |-> prefixOf(rowIndex, sig, streak),
         badge      |-> IF streak > 1 THEN streak ELSE 0]

renderRows(store, strategies) ==
    [r \in 1..Len(store) |->
        [date  |-> store[r].date,
         price |-> store[r].price,
         cells |-> [c \in 1..Len(strategies) |->
                       renderCell(store, r - 1, strategies[c].key)]]]

----------------------------------------------------------------------------
(* The payloads.  Three families, each small in what the others vary.      *)

\* "2024-01-nn"
Day(n) == <<50, 48, 50, 52, 45, 48, 49, 45, 48 + (n \div 10), 48 + (n % 10)>>
\* the same day with a time of day, "2024-01-nnT09:30"
WithTime(d) == d \o <<TChar, 48, 57, 58, 51, 48>>

Bar(date, close, code) == [date |-> date, close |-> close, signal |-> code]
Perf(r) == Some([annual_return |-> r])
Series(class, perf, equity_df) ==
    [strategy_class |-> class, strategy_name |-> "", perf |-> perf,
     equity_df |-> equity_df]

SeqsUpTo(S, n) == UNION {[1..k -> S] : k \in 0..n}

\* ranking family: up to MaxStrat series of distinct classes, any perf,
\* each with one bar whose wire code tells the classes apart
PerfValues ==
    {None, Perf(None)} \cup {Perf(Some(r)) : r \in {-10, 0, 10, 20}}
OwnCode(i) == <<Some(1), Some(-1), Some(0), None, Some(2), Some(1)>>[i]
ClassOrders(n) ==
    {g \in [1..n -> 1..MaxStrat] : \A i, j \in 1..n : i # j => g[i] # g[j]}
RankInput(n, f, p) ==
    [i \in 1..n |->
        Series(StrategyClass(f[i]), p[i],
               Some(<<Bar(Day(1), Some(10237), OwnCode(f[i]))>>))]

\* merge family: series A with up to MaxBars bars over two days, one of
\* them also with a time of day, and series B with at most one bar; either
\* may carry no array at all; A ranks below or above B
MergeDates == {Day(1), Day(2), WithTime(Day(1))}
WireCodes == {Some(1), Some(-1), Some(0)}
MergeBarsA == {Bar(d, Some(10237), c) : d \in MergeDates, c \in WireCodes}
\* B's bar may also lack the code or carry one that is not in use
AnyCodes == WireCodes \cup {None, Some(2)}
MergeBarsB == {Bar(d, cl, c) : d \in MergeDates, cl \in {None, Some(20482)},
                               c \in AnyCodes}
MergeColumnsA == {None} \cup {Some(b) : b \in SeqsUpTo(MergeBarsA, MaxBars)}
MergeColumnsB == {None} \cup {Some(b) : b \in SeqsUpTo(MergeBarsB, 1)}
ReturnsOfA == {10, 30}
TwoSeries(ra, ea, eb) ==
    <<Series("A", Perf(Some(ra)), ea), Series("B", Perf(Some(20)), eb)>>

\* streak family: series A with one bar on each of the days d..1, newest
\* first, any wire codes; series B constant, or with a single bar, or
\* without an array; A ranks below or above B
ColumnBars(d, codes, close) ==
    [i \in 1..d |-> Bar(Day(d + 1 - i), close, codes[i])]
StreakColumnsB(d) ==
    {None,
     Some(ColumnBars(d, [i \in 1..d |-> Some(-1)], Some(20482))),
     Some(ColumnBars(d, [i \in 1..d |-> Some(0)], Some(20482))),
     Some(<<Bar(Day(d), Some(20482), Some(-1))>>),
     Some(<<Bar(Day(1), Some(20482), Some(1))>>)}

\* the argument is one of these lists, or no array at all
FetchedSignals ==
    \/ signals = None
    \/ \E n \in 0..MaxStrat : \E f \in ClassOrders(n), p \in [1..n -> PerfValues] :
          signals = Some(RankInput(n, f, p))
    \/ \E ra \in ReturnsOfA, ea \in MergeColumnsA, eb \in MergeColumnsB :
          signals = Some(TwoSeries(ra, ea, eb))
    \/ \E d \in 1..MaxDay : \E ra \in ReturnsOfA, codes \in [1..d -> WireCodes],
                               eb \in StreakColumnsB(d) :
          signals = Some(TwoSeries(ra, Some(ColumnBars(d, codes, Some(10237))), eb))

----------------------------------------------------------------------------
(* The page *)

\* the SearchComponent object as its literal creates it, an empty input, an
\* empty suggestion box and an empty localStorage; no streak was asked for
SearchInit ==
    /\ inputValue = ""
    /\ isComposing = FALSE
    /\ debounceTimer = <<>>
    /\ sinceInput = 0
    /\ pendingSearches = <<>>
    /\ boxItems = <<>>
    /\ boxDisplay = ""
    /\ selectedIndex = -1
    /\ history = <<>>
    /\ savedStock = <<>>
    /\ keyEvent = ""
    /\ streakResult = <<>>

\* variant: the rows of the previous call kept
staleMatrixMap == currentDataStore

\* const matrixMap = {}: every call starts from an object of its own
newMatrixMap == <<>>

\* variant: the cells computed from the rows stored before the call, as if
\* another handler ran between the build and the streak computation
renderSignalMatrixOverStoredRows(arg, outcome) ==
    IF ~ IsArray(arg) \/ Len(arg[1]) = 0
    THEN /\ matrixBody' = <<>>
         /\ UNCHANGED <<headerRow, currentDataStore>>
    ELSE LET strategies == rankStrategies(arg[1])
             store == sortRows(buildMatrixMap(<<>>, strategies, arg[1], 1))
         IN  /\ headerRow' = strategies
             /\ currentDataStore' = store
             /\ matrixBody' = renderRows(currentDataStore, strategies)

\* the ways a call of renderSignalMatrix on arg can end
renderOutcomes(arg) ==
    IF ~ IsArray(arg) \/ Len(arg[1]) = 0 THEN {"returned"}
    ELSE rowsSortOutcomes(buildMatrixMap(newMatrixMap, rankStrategies(arg[1]),
                                         arg[1], 1))

\* the body of UI.renderSignalMatrix, static/ui.js 13-93, on the argument arg,
\* ending as outcome says: a TypeError of the sort leaves the call after
\* updateTableHeader and before the assignment of currentDataStore
renderSignalMatrix(arg, outcome) ==
    IF ~ IsArray(arg) \/ Len(arg[1]) = 0
    THEN /\ matrixBody' = <<>>
         /\ UNCHANGED <<headerRow, currentDataStore>>
    ELSE LET strategies == rankStrategies(arg[1])
             matrixMap == buildMatrixMap(newMatrixMap, strategies, arg[1], 1)
             store == sortRows(matrixMap)
         IN  IF outcome = "TypeError"
             THEN /\ headerRow' = strategies
                  /\ UNCHANGED <<currentDataStore, matrixBody>>
             ELSE /\ headerRow' = strategies
                  /\ currentDataStore' = store
                  /\ matrixBody' = renderRows(store, strategies)

\* a new UI object and a page on which nothing was requested yet
Init ==
    /\ FetchedSignals
    /\ headerRow = <<>>
    /\ currentDataStore = <<>>
    /\ matrixBody = <<>>
    /\ pc = "fetched"
    /\ currentSymbol = ""
    /\ inflight = <<>>
    /\ loadingTxt = FALSE
    /\ kellySymbol = ""
    /\ errorLogged = FALSE
    /\ SearchInit

\* ui.renderSignalMatrix(result["signal"]) on a new UI object
RenderSignalMatrix ==
    /\ pc = "fetched"
    /\ \E outcome \in renderOutcomes(signals) :
          /\ renderSignalMatrix(signals, outcome)
          /\ pc' = IF outcome = "TypeError" THEN "raised" ELSE "rendered"
    /\ UNCHANGED signals
    /\ UNCHANGED <<pageVars, streakResult, searchVars>>

Next == RenderSignalMatrix

Spec == Init /\ [][Next]_vars

----------------------------------------------------------------------------
(* The page script static/tradesignal.js: the stock selector and loadData,  *)
(* whose calls overlap when a symbol is chosen while a response is awaited *)

\* the symbols offered by the selector
SelectorSymbols == {"X", "Y", "y", "Z", "W", "V"}

\* sym.toUpperCase() on these symbols
toUpperCase(s) ==
    CASE s = "y" -> "Y"
      [] s = "a" -> "A"
      [] s = "b" -> "B"
      [] OTHER -> s

Report == Some([signal |-> "BUY"])

\* the parsed body of the response to /api/tradesignal/<symbol>: X has two
\* strategies, Y one other strategy on days that overlap X's, Z has an empty
\* list, W no list at all, V a list but no report
SignalOfX ==
    Some(TwoSeries(30,
                   Some(<<Bar(Day(2), Some(10237), Some(1)),
                          Bar(Day(1), Some(10237), Some(-1))>>),
                   Some(<<Bar(Day(1), Some(20482), Some(-1))>>)))
SignalOfY ==
    Some(<<Series("C", Perf(Some(20)),
                  Some(<<Bar(Day(3), Some(30725), Some(1)),
                         Bar(Day(2), Some(30725), Some(1))>>))>>)
ResponseOf(symbol) ==
    CASE symbol = "X" -> [signal |-> SignalOfX, report |-> Report]
      [] symbol = "Y" -> [signal |-> SignalOfY, report |-> Report]
      [] symbol = "Z" -> [signal |-> Some(<<>>), report |-> Report]
      [] symbol = "W" -> [signal |-> None, report |-> Report]
      [] OTHER -> [signal |-> SignalOfX, report |-> None]

\* the row <tr><td colspan="100">...</td></tr> of the catch block: no date,
\* no price, no signal cell
NoDataRow == [date |-> <<>>, price |-> 0, cells |-> <<>>]

RemoveAt(seq, i) == SubSeq(seq, 1, i - 1) \o SubSeq(seq, i + 1, Len(seq))

InitLoad ==
    /\ signals = None
    /\ headerRow = <<>>
    /\ currentDataStore = <<>>
    /\ matrixBody = <<>>
    /\ pc = "idle"
    /\ currentSymbol = ""
    /\ inflight = <<>>
    /\ loadingTxt = FALSE
    /\ kellySymbol = ""
    /\ errorLogged = FALSE
    /\ SearchInit

\* selector.onchange (and the first load of loadStocks): currentSymbol is
\* set and loadData runs up to its first await
SelectorOnChange(s) ==
    /\ Len(inflight) < MaxInflight
    /\ currentSymbol' = s
    /\ loadingTxt' = TRUE
    /\ inflight' = Append(inflight, [symbol |-> toUpperCase(s), at |-> "fetch"])
    /\ UNCHANGED <<signals, headerRow, currentDataStore, matrixBody, pc,
                   kellySymbol, errorLogged, streakResult, searchVars>>

\* await fetch(...) resolves: the call goes on to await response.json()
FetchResolves(i) ==
    /\ inflight[i].at = "fetch"
    /\ inflight' = [inflight EXCEPT ![i].at = "json"]
    /\ UNCHANGED <<signals, headerRow, currentDataStore, matrixBody, pc,
                   currentSymbol, loadingTxt, kellySymbol, errorLogged,
                   streakResult, searchVars>>

\* the catch block
catchLoadData ==
    /\ matrixBody' = <<NoDataRow>>
    /\ errorLogged' = TRUE
    /\ pc' = "caught"
    /\ UNCHANGED <<signals, headerRow, currentDataStore>>

\* await response.json() resolves: renderReport, which writes the symbol and
\* then throws on a missing report, renderSignalMatrix, and the finally block
JsonResolves(i) ==
    /\ inflight[i].at = "json"
    /\ LET result == ResponseOf(inflight[i].symbol) IN
       /\ kellySymbol' = inflight[i].symbol
       /\ IF result.report = None
          THEN catchLoadData
          ELSE /\ signals' = result.signal
               /\ \E outcome \in renderOutcomes(result.signal) :
                     IF outcome = "TypeError"
                     THEN /\ headerRow' = rankStrategies(result.signal[1])
                          /\ UNCHANGED currentDataStore
                          /\ matrixBody' = <<NoDataRow>>
                          /\ errorLogged' = TRUE
                          /\ pc' = "caught"
                     ELSE /\ renderSignalMatrix(result.signal, outcome)
                          /\ pc' = "rendered"
                          /\ UNCHANGED errorLogged
    /\ loadingTxt' = FALSE
    /\ inflight' = RemoveAt(inflight, i)
    /\ UNCHANGED <<currentSymbol, streakResult, searchVars>>

\* either await rejects: the catch block and the finally block
AwaitRejects(i) ==
    /\ catchLoadData
    /\ loadingTxt' = FALSE
    /\ inflight' = RemoveAt(inflight, i)
    /\ UNCHANGED <<currentSymbol, kellySymbol, streakResult, searchVars>>

NextLoad ==
    \/ \E s \in SelectorSymbols : SelectorOnChange(s)
    \/ \E i \in 1..Len(inflight) : FetchResolves(i)
    \/ \E i \in 1..Len(inflight) : JsonResolves(i)
    \/ \E i \in 1..Len(inflight) : AwaitRejects(i)

SpecLoad == InitLoad /\ [][NextLoad]_vars

----------------------------------------------------------------------------
(* The older page script (unnamed/part_001): loadData ranks the series,     *)
(* builds the matrix and renders it itself; columns and cells are keyed by *)
(* strategy_name, and CONFIG.strategies is the list of the header's keys   *)

\* the series of the merge family as this script needs them: with a name
Named(list) ==
    [i \in 1..Len(list) |-> [list[i] EXCEPT !.strategy_name = list[i].strategy_class]]

LegacySignals ==
    \/ signals \in {None, Some(<<>>)}
    \/ \E pa \in {None, Perf(Some(10)), Perf(Some(30))},
          ea \in MergeColumnsA, eb \in MergeColumnsB :
          signals = Some(Named(<<Series("A", pa, ea), Series("B", Perf(Some(20)), eb)>>))

InitLegacy ==
    /\ LegacySignals
    /\ headerRow = <<>>
    /\ currentDataStore = <<>>
    /\ matrixBody = <<>>
    /\ pc = "fetched"
    /\ currentSymbol = "X"
    /\ inflight = <<[symbol |-> "X", at |-> "json"]>>
    /\ loadingTxt = TRUE
    /\ kellySymbol = ""
    /\ errorLogged = FALSE
    /\ SearchInit

\* rawStrategies.sort(...) reads b.perf.annual_return without ?. : every
\* element of a list of two or more is compared, and one without perf makes
\* the comparator throw
legacySortThrows(list) ==
    Len(list) >= 2 /\ \E i \in 1..Len(list) : list[i].perf = None

\* strat.equity_df.forEach(...) is called without an Array.isArray test
legacyForEachThrows(list) ==
    \E i \in 1..Len(list) : ~ IsArray(list[i].equity_df)

legacyColumn(s) == [key |-> s.strategy_name, name |-> s.strategy_class, perf |-> s.perf]

legacyNewRow(date) == [date |-> date, signals |-> [k \in StrategyKeys |-> "undefined"]]

legacyAddBar(map, name, item) ==
    LET date == barDate(item)
        m1 == IF rowOf(map, date) = 0 THEN Append(map, legacyNewRow(date)) ELSE map
        i == rowOf(m1, date)
    IN  [m1 EXCEPT ![i].signals[name] = decodeSignalLegacy(item.signal)]

RECURSIVE legacyAddBars(_, _, _)
legacyAddBars(map, name, items) ==
    IF items = <<>> THEN map
    ELSE legacyAddBars(legacyAddBar(map, name, Head(items)), name, Tail(items))

\* rawStrategies.forEach(strat => ...): series without an array add nothing
\* here, the throw is decided by legacyForEachThrows
RECURSIVE legacyBuildMatrixMap(_, _)
legacyBuildMatrixMap(map, list) ==
    IF list = <<>> THEN map
    ELSE legacyBuildMatrixMap(
             IF IsArray(Head(list).equity_df)
             THEN legacyAddBars(map, Head(list).strategy_name, Head(list).equity_df[1])
             ELSE map,
             Tail(list))

\* renderMatrix
legacyRenderCell(store, rowIndex, stratName) ==
    LET sig == cellSignal(store[rowIndex + 1], stratName)
        streak == calculateStreakLegacy(store, sig, rowIndex, stratName)
    IN  [key        |-> stratName,
         sig        |-> sig,
         streak     |-> streak,
         alertClass |-> alertClassOf(rowIndex, sig, streak),
         prefix     |-> prefixOf(rowIndex, sig, streak),
         badge      |-> IF streak > 1 /\ sig # "HOLD" THEN streak ELSE 0]

renderMatrix(store, columns) ==
    [r \in 1..Len(store) |->
        [date  |-> store[r].date,
         cells |-> [c \in 1..Len(columns) |->
                       legacyRenderCell(store, r - 1, columns[c].key)]]]

\* loadData of the older script from the arrival of the parsed response on:
\* renderReport, the sort in place, the header, the matrix, renderMatrix;
\* a throw anywhere ends in the catch block
LegacyLoadData ==
    /\ pc = "fetched"
    /\ kellySymbol' = inflight[1].symbol
    /\ loadingTxt' = FALSE
    /\ inflight' = <<>>
    /\ UNCHANGED <<currentSymbol, streakResult, searchVars>>
    /\ IF ~ IsArray(signals) \/ legacySortThrows(signals[1])
       THEN catchLoadData
       ELSE LET sorted == sortStrategies(signals[1])
                columns == [i \in 1..Len(sorted) |-> legacyColumn(sorted[i])]
                store == sortRows(legacyBuildMatrixMap(newMatrixMap, sorted))
            IN  /\ signals' = Some(sorted)
                /\ headerRow' = columns
                /\ IF legacyForEachThrows(sorted)
                   THEN /\ matrixBody' = <<NoDataRow>>
                        /\ errorLogged' = TRUE
                        /\ pc' = "caught"
                        /\ UNCHANGED currentDataStore
                   ELSE /\ currentDataStore' = store
                        /\ matrixBody' = renderMatrix(store, columns)
                        /\ pc' = "rendered"
                        /\ UNCHANGED errorLogged

NextLegacy == LegacyLoadData

SpecLegacy == InitLegacy /\ [][NextLegacy]_vars

----------------------------------------------------------------------------
(* SearchComponent of static/backtest.js: the search history              *)

MAX_HISTORY == 6
MaxSymbols == 7     \* the symbols a user picks from, one more than the history holds

SymbolName(i) == <<"S1", "S2", "S3", "S4", "S5", "S6", "S7", "S8", "S9">>[i]

\* the stocks handed to saveHistory: one per symbol, and the first symbol
\* also under a second name
PickedStocks ==
    {[symbol |-> SymbolName(i), name |-> "n", market |-> "SH"] : i \in 1..MaxSymbols}
        \cup {[symbol |-> SymbolName(1), name |-> "m", market |-> "SH"]}

\* JSON.parse(localStorage.getItem(HISTORY_KEY) || '[]')
parseHistory(item) == IF item = None THEN <<>> ELSE item[1]

\* variant: every entry kept
keepAll(list, stock) == list

\* history.filter(h => h.symbol !== stock.symbol)
filterOthers(list, stock) == SelectSeq(list, LAMBDA h : h.symbol # stock.symbol)

\* history.slice(0, n)
slice0(list, n) == SubSeq(list, 1, IF Len(list) < n THEN Len(list) ELSE n)

\* the list saveHistory(stock) stores
saveHistory(item, stock) ==
    slice0(<<stock>> \o filterOthers(parseHistory(item), stock), MAX_HISTORY)

InitHistory ==
    /\ signals = None
    /\ headerRow = <<>>
    /\ currentDataStore = <<>>
    /\ matrixBody = <<>>
    /\ pc = "idle"
    /\ currentSymbol = ""
    /\ inflight = <<>>
    /\ loadingTxt = FALSE
    /\ kellySymbol = ""
    /\ errorLogged = FALSE
    /\ SearchInit

\* SearchComponent.saveHistory(stock)
SaveHistory(stock) ==
    /\ history' = Some(saveHistory(history, stock))
    /\ savedStock' = Some(stock)
    /\ UNCHANGED <<signals, headerRow, currentDataStore, matrixBody, pc, pageVars,
                   streakResult, inputValue, isComposing, debounceTimer, sinceInput,
                   pendingSearches, boxItems, boxDisplay, selectedIndex, keyEvent>>

NextHistory == \E stock \in PickedStocks : SaveHistory(stock)

SpecHistory == InitHistory /\ [][NextHistory]_vars

----------------------------------------------------------------------------
(* SearchComponent of static/backtest.js: the input, the debounced search  *)
(* and the suggestion box.  Time passes in ticks of 250 ms.               *)

DebounceTicks == 1      \* the 250 ms of setTimeout
MaxPending == 1         \* search requests that await their response at one time

\* what the user can make the input hold, and value.trim() of it
TypedValues == {"", " ", "a"}
trim(v) == IF v = " " THEN "" ELSE v

\* the parsed body of the response to /api/stocks/search?q=...
ResultsOf(q) ==
    IF q = "a" THEN <<[symbol |-> "S1", name |-> "n", exchange |-> "SH"],
                      [symbol |-> "S2", name |-> "n", exchange |-> "SZ"]>>
    ELSE <<>>

\* the data-* attributes of the element getItemHTML makes for s; a stock of
\* the history has no property exchange, which reads as undefined
getItemHTML(s) ==
    [symbol |-> s.symbol, name |-> s.name,
     market |-> IF "exchange" \in DOMAIN s THEN s.exchange ELSE "undefined"]

\* a % n of JavaScript, for n > 0: the sign is that of a
jsRem(a, n) == IF a >= 0 THEN a % n ELSE 0 - ((0 - a) % n)

\* variant: one step back without the wrap
arrowUpIndexNoWrap(sel, n) == jsRem(sel - 1, n)

arrowDownIndex(sel, n) == jsRem(sel + 1, n)
arrowUpIndex(sel, n) == jsRem(sel - 1 + n, n)

\* renderStocks(stocks) and renderHistory(), which differ in a header
\* that is no .suggestion-item, with show() and hide()
renderStocks(stocks) ==
    IF stocks = <<>>
    THEN /\ boxDisplay' = "none"
         /\ UNCHANGED <<boxItems, selectedIndex>>
    ELSE /\ boxItems' = [i \in 1..Len(stocks) |-> getItemHTML(stocks[i])]
         /\ boxDisplay' = "block"
         /\ selectedIndex' = -1

renderHistory == renderStocks(parseHistory(history))

handleInput(q) ==
    IF q = ""
    THEN /\ debounceTimer' = None
         /\ renderHistory
    ELSE /\ debounceTimer' = Some([q |-> q, remaining |-> DebounceTicks])
         /\ UNCHANGED <<boxItems, boxDisplay, selectedIndex>>

\* doBacktest(symbol) up to the await of updateBacktest, with the value of
\* #stockSelector: the symbol it settles on, "" when it alerts and returns
doBacktestSymbol(symbol, value, selectorValue) ==
    toUpperCase(IF symbol # "" THEN symbol
                ELSE IF trim(value) # "" THEN trim(value)
                ELSE selectorValue)

doBacktest(symbol, value, selectorValue) ==
    LET sym == doBacktestSymbol(symbol, value, selectorValue)
    IN  currentSymbol' = IF sym = "" THEN currentSymbol ELSE sym

\* confirmSelection(item)
confirmSelection(item, selectorValue) ==
    /\ inputValue' = item.symbol
    /\ history' = Some(saveHistory(history, item))
    /\ savedStock' = Some(item)
    /\ boxDisplay' = "none"
    /\ doBacktest(item.symbol, item.symbol, selectorValue)

pageRest == <<signals, headerRow, currentDataStore, matrixBody, pc, inflight,
              loadingTxt, kellySymbol, streakResult>>

InitSearch ==
    /\ signals = None
    /\ headerRow = <<>>
    /\ currentDataStore = <<>>
    /\ matrixBody = <<>>
    /\ pc = "idle"
    /\ currentSymbol = ""
    /\ inflight = <<>>
    /\ loadingTxt = FALSE
    /\ kellySymbol = ""
    /\ errorLogged = FALSE
    /\ SearchInit

CompositionStart ==
    /\ isComposing' = TRUE
    /\ keyEvent' = ""
    /\ UNCHANGED <<pageRest, currentSymbol, errorLogged, inputValue, debounceTimer,
                   sinceInput, pendingSearches, boxItems, boxDisplay, selectedIndex,
                   history, savedStock>>

CompositionEnd ==
    /\ isComposing' = FALSE
    /\ handleInput(trim(inputValue))
    /\ keyEvent' = ""
    /\ UNCHANGED <<pageRest, currentSymbol, errorLogged, inputValue, sinceInput,
                   pendingSearches, history, savedStock>>

\* the input event that leaves the input with the value v
InputEvent(v) ==
    /\ inputValue' = v
    /\ sinceInput' = 0
    /\ IF isComposing
       THEN UNCHANGED <<debounceTimer, boxItems, boxDisplay, selectedIndex>>
       ELSE handleInput(trim(v))
    /\ keyEvent' = ""
    /\ UNCHANGED <<pageRest, currentSymbol, errorLogged, isComposing,
                   pendingSearches, history, savedStock>>

Focus ==
    /\ IF trim(inputValue) = "" THEN renderHistory
       ELSE UNCHANGED <<boxItems, boxDisplay, selectedIndex>>
    /\ keyEvent' = ""
    /\ UNCHANGED <<pageRest, currentSymbol, errorLogged, inputValue, isComposing,
                   debounceTimer, sinceInput, pendingSearches, history, savedStock>>

\* handleKeyDown(e) with e.key = key
KeyDown(key, selectorValue) ==
    /\ keyEvent' = key
    /\ IF boxItems = <<>> \/ boxDisplay = "none"
       THEN /\ IF key = "Enter" THEN doBacktest(inputValue, inputValue, selectorValue)
               ELSE UNCHANGED currentSymbol
            /\ UNCHANGED <<inputValue, boxDisplay, selectedIndex, history, savedStock>>
       ELSE CASE key = "ArrowDown" ->
                    /\ selectedIndex' = arrowDownIndex(selectedIndex, Len(boxItems))
                    /\ UNCHANGED <<currentSymbol, inputValue, boxDisplay, history,
                                   savedStock>>
              [] key = "ArrowUp" ->
                    /\ selectedIndex' = arrowUpIndex(selectedIndex, Len(boxItems))
                    /\ UNCHANGED <<currentSymbol, inputValue, boxDisplay, history,
                                   savedStock>>
              [] key = "Enter" ->
                    IF selectedIndex > -1
                    THEN /\ confirmSelection(boxItems[selectedIndex + 1], selectorValue)
                         /\ UNCHANGED selectedIndex
                    ELSE /\ doBacktest(inputValue, inputValue, selectorValue)
                         /\ boxDisplay' = "none"
                         /\ UNCHANGED <<inputValue, selectedIndex, history, savedStock>>
              [] OTHER ->
                    UNCHANGED <<currentSymbol, inputValue, boxDisplay, selectedIndex,
                                history, savedStock>>
    /\ UNCHANGED <<pageRest, errorLogged, isComposing, debounceTimer, sinceInput,
                   pendingSearches, boxItems>>

\* a click outside the input and the box
DocumentClick ==
    /\ boxDisplay' = "none"
    /\ keyEvent' = ""
    /\ UNCHANGED <<pageRest, currentSymbol, errorLogged, inputValue, isComposing,
                   debounceTimer, sinceInput, pendingSearches, boxItems, selectedIndex,
                   history, savedStock>>

\* a click on item i of the box while it is displayed: the listener of the
\* box, then the one of the document, which hides the box again
BoxClick(i, selectorValue) ==
    /\ boxDisplay = "block"
    /\ i \in 1..Len(boxItems)
    /\ confirmSelection(boxItems[i], selectorValue)
    /\ keyEvent' = ""
    /\ UNCHANGED <<pageRest, errorLogged, isComposing, debounceTimer, sinceInput,
                   pendingSearches, boxItems, selectedIndex>>

\* 250 ms pass
Tick ==
    /\ sinceInput < DebounceTicks \/ (debounceTimer # None /\ debounceTimer[1].remaining > 0)
    /\ sinceInput' = IF sinceInput < DebounceTicks THEN sinceInput + 1 ELSE sinceInput
    /\ debounceTimer' =
           IF debounceTimer # None /\ debounceTimer[1].remaining > 0
           THEN Some([debounceTimer[1] EXCEPT !.remaining = @ - 1])
           ELSE debounceTimer
    /\ keyEvent' = ""
    /\ UNCHANGED <<pageRest, currentSymbol, errorLogged, inputValue, isComposing,
                   pendingSearches, boxItems, boxDisplay, selectedIndex, history,
                   savedStock>>

\* the callback of setTimeout up to its first await: the request is sent
TimerFires ==
    /\ debounceTimer # None
    /\ debounceTimer[1].remaining = 0
    /\ Len(pendingSearches) < MaxPending
    /\ pendingSearches' = Append(pendingSearches, debounceTimer[1].q)
    /\ debounceTimer' = None
    /\ keyEvent' = ""
    /\ UNCHANGED <<pageRest, currentSymbol, errorLogged, inputValue, isComposing,
                   sinceInput, boxItems, boxDisplay, selectedIndex, history,
                   savedStock>>

\* fetch and response.json() resolve, one after the other with no state
\* changed in between: renderStocks(stocks)
SearchResolves(i) ==
    /\ renderStocks(ResultsOf(pendingSearches[i]))
    /\ pendingSearches' = RemoveAt(pendingSearches, i)
    /\ keyEvent' = ""
    /\ UNCHANGED <<pageRest, currentSymbol, errorLogged, inputValue, isComposing,
                   debounceTimer, sinceInput, history, savedStock>>

\* one of the two rejects: the catch block
SearchRejects(i) ==
    /\ errorLogged' = TRUE
    /\ pendingSearches' = RemoveAt(pendingSearches, i)
    /\ keyEvent' = ""
    /\ UNCHANGED <<pageRest, currentSymbol, inputValue, isComposing, debounceTimer,
                   sinceInput, boxItems, boxDisplay, selectedIndex, history,
                   savedStock>>

KeyNames == {"ArrowDown", "ArrowUp", "Enter", "Escape"}
\* #stockSelector holds the value of its first option, which is empty
SelectorValues == {""}

\* the user types, with or without an input method, and leaves the box alone
NextSearch ==
    \/ CompositionStart
    \/ CompositionEnd
    \/ \E v \in TypedValues : InputEvent(v)
    \/ Focus
    \/ DocumentClick
    \/ Tick
    \/ TimerFires
    \/ \E i \in 1..Len(pendingSearches) : SearchResolves(i)
    \/ \E i \in 1..Len(pendingSearches) : SearchRejects(i)

SpecSearch == InitSearch /\ [][NextSearch]_vars

\* the user types without an input method and picks from the box, with the
\* keys or with a click
NextSelect ==
    \/ \E v \in TypedValues : InputEvent(v)
    \/ Focus
    \/ \E key \in KeyNames, selectorValue \in SelectorValues : KeyDown(key, selectorValue)
    \/ DocumentClick
    \/ \E i \in 1..Len(boxItems), selectorValue \in SelectorValues :
          BoxClick(i, selectorValue)
    \/ Tick
    \/ TimerFires
    \/ \E i \in 1..Len(pendingSearches) : SearchResolves(i)
    \/ \E i \in 1..Len(pendingSearches) : SearchRejects(i)

SpecSelect == InitSearch /\ [][NextSelect]_vars

----------------------------------------------------------------------------
(* renderSignalMatrix on payloads off the beaten track: bars whose date is  *)
(* no calendar date, and series that carry a strategy_name of their own    *)

NotADate == <<110, 47, 97>>     \* "n/a"
TBD == <<TChar, 66, 68>>        \* "TBD"
MalformedDates == {NotADate, TBD, Undefined, Null}
EdgeDates == {Day(1), Day(2)} \cup MalformedDates
EdgeBarsA == {Bar(d, Some(10237), Some(1)) : d \in EdgeDates}
EdgeBarsB == {Bar(d, Some(20482), Some(-1)) : d \in EdgeDates}

NamedSeries(name, class, perf, equity_df) ==
    [strategy_class |-> class, strategy_name |-> name, perf |-> perf,
     equity_df |-> equity_df]

\* dates family: series A with up to two bars and series B with at most one,
\* each bar on a day or with one of the malformed dates; names family: two
\* series of distinct names, of one class or of two, one bar each
EdgeSignals ==
    \/ \E ea \in SeqsUpTo(EdgeBarsA, 2), eb \in SeqsUpTo(EdgeBarsB, 1) :
          signals = Some(TwoSeries(30, Some(ea), Some(eb)))
    \/ \E ca, cb \in {"A", "B"}, ra \in ReturnsOfA, sa, sb \in WireCodes,
          db \in {Day(1), Day(2)} :
          signals = Some(<<NamedSeries("N1", ca, Perf(Some(ra)),
                                       Some(<<Bar(Day(1), Some(10237), sa)>>)),
                           NamedSeries("N2", cb, Perf(Some(20)),
                                       Some(<<Bar(db, Some(20482), sb)>>))>>)

InitEdge ==
    /\ EdgeSignals
    /\ headerRow = <<>>
    /\ currentDataStore = <<>>
    /\ matrixBody = <<>>
    /\ pc = "fetched"
    /\ currentSymbol = ""
    /\ inflight = <<>>
    /\ loadingTxt = FALSE
    /\ kellySymbol = ""
    /\ errorLogged = FALSE
    /\ SearchInit

NextEdge == RenderSignalMatrix

SpecEdge == InitEdge /\ [][NextEdge]_vars

----------------------------------------------------------------------------
(* calculateStreak called from outside the rendering loop, with any row    *)
(* index and any key, on the matrix a rendering left behind                *)

Returned(n) == [raised |-> FALSE, value |-> n]
TypeError == [raised |-> TRUE, value |-> 0]

\* the loop starts at i = rowIndex + 1 and tests only i < length: for a
\* negative i, currentDataStore[i] is undefined and reading its .signals
\* raises a TypeError
callCalculateStreak(store, sig, rowIndex, strategyKey) ==
    IF rowIndex + 1 < 0 THEN TypeError
    ELSE Returned(calculateStreak(store, sig, rowIndex, strategyKey))

\* the older script returns before the loop for HOLD
callCalculateStreakLegacy(store, sig, rowIndex, stratName) ==
    IF sig # "HOLD" /\ rowIndex + 1 < 0 THEN TypeError
    ELSE Returned(calculateStreakLegacy(store, sig, rowIndex, stratName))

\* the row indices tried: from below -1 to past the last row
RowIndexes == (-3)..(Len(currentDataStore) + 1)

\* series A with one bar on each of the days d..1, series B without bars
StreakSignals ==
    \/ signals = Some(<<>>)
    \/ \E d \in 1..MaxDay : \E codes \in [1..d -> WireCodes] :
          signals = Some(TwoSeries(30, Some(ColumnBars(d, codes, Some(10237))), None))

InitStreak ==
    /\ StreakSignals
    /\ headerRow = <<>>
    /\ currentDataStore = <<>>
    /\ matrixBody = <<>>
    /\ pc = "fetched"
    /\ currentSymbol = ""
    /\ inflight = <<>>
    /\ loadingTxt = FALSE
    /\ kellySymbol = ""
    /\ errorLogged = FALSE
    /\ SearchInit

\* ui.calculateStreak(sig, rowIndex, strategyKey), and the older script's
\* calculateStreak on the same rows; a key outside the header is unknown
CallCalculateStreak(sig, rowIndex, strategyKey) ==
    /\ pc = "rendered"
    /\ streakResult' =
           Some([ui     |-> callCalculateStreak(currentDataStore, sig, rowIndex,
                                                strategyKey),
                 legacy |-> callCalculateStreakLegacy(currentDataStore, sig, rowIndex,
                                                      strategyKey)])
    /\ UNCHANGED <<signals, headerRow, currentDataStore, matrixBody, pc,
                   pageVars, searchVars>>

NextStreak ==
    \/ RenderSignalMatrix
    \/ \E sig \in {"BUY", "SELL", "HOLD"}, rowIndex \in RowIndexes,
          strategyKey \in {"A", "B", "F"} :
          CallCalculateStreak(sig, rowIndex, strategyKey)

SpecStreak == InitStreak /\ [][NextStreak]_vars

----------------------------------------------------------------------------
(* Vocabulary of the properties *)

Rendered == pc = "rendered" /\ IsArray(signals) /\ Len(signals[1]) > 0
InputList == signals[1]
Rows == 1..Len(matrixBody)
Columns == 1..Len(headerRow)
CellAt(r, c) == matrixBody[r].cells[c]

\* the calendar date of an ISO date string: its first ten characters
CalendarDate(d) == SubSeq(d, 1, 10)

\* the signal a wire code stands for
SignalOfCode(code) ==
    IF code = None THEN "HOLD"
    ELSE CASE code[1] = 1 -> "BUY" [] code[1] = -1 -> "SELL" [] OTHER -> "HOLD"

\* the bar of a series that speaks for a date: the last one filed on it
IsLastBarOfDate(bars, j) ==
    \A k \in (j + 1)..Len(bars) : CalendarDate(bars[k].date) # CalendarDate(bars[j].date)

\* annual_return with missing and null read as zero
ReturnOrZero(perf) ==
    IF perf = None THEN 0
    ELSE IF perf[1].annual_return = None THEN 0
    ELSE perf[1].annual_return[1]

----------------------------------------------------------------------------
\* C1: after renderSignalMatrix, for every series S of the input and every
\* date D on which S has a bar, the row of D holds under S's own key the
\* decoded signal of S's own (last) bar for D.
C1_OwnSignalUnderOwnKey ==
    Rendered =>
        \A i \in 1..Len(InputList) :
            IsArray(InputList[i].equity_df) =>
                LET bars == InputList[i].equity_df[1] IN
                \A j \in 1..Len(bars) :
                    IsLastBarOfDate(bars, j) =>
                        \E r \in 1..Len(currentDataStore) :
                            /\ currentDataStore[r].date = CalendarDate(bars[j].date)
                            /\ currentDataStore[r].signals[InputList[i].strategy_class]
                                   = SignalOfCode(bars[j].signal)

----------------------------------------------------------------------------
\* the cell of the newest row in the column of a key
NewestCellOf(key) ==
    CHOOSE cell \in {CellAt(1, c) : c \in Columns} : cell.key = key
HeaderKeys == [c \in Columns |-> headerRow[c].key]

\* the end-to-end scenario: A (annual_return 0.10) with BUY, BUY, SELL and
\* B (annual_return 0.20) with SELL, SELL, SELL, newest first, on
\* 2024-01-03, 2024-01-02, 2024-01-01
ScenarioInput ==
    Some(TwoSeries(10,
                   Some(ColumnBars(3, <<Some(1), Some(1), Some(-1)>>, Some(10237))),
                   Some(ColumnBars(3, <<Some(-1), Some(-1), Some(-1)>>, Some(20482)))))

\* C2: on the scenario input the columns are [B, A]; at the newest row the
\* streak of B is 3, STRONG when strongStreak <= 3, and the streak of A is 1
\* with classification NONE.
C2_EndToEndScenario ==
    (pc = "rendered" /\ signals = ScenarioInput) =>
        /\ HeaderKeys = <<"B", "A">>
        /\ matrixBody[1].date = Day(3)
        /\ NewestCellOf("B").streak = 3
        /\ (CONFIG.strong_Streak <= 3 => NewestCellOf("B").prefix = "fire")
        /\ NewestCellOf("A").streak = 1
        /\ NewestCellOf("A").alertClass = ""
        /\ NewestCellOf("A").prefix = ""

----------------------------------------------------------------------------
\* n is the number of consecutive rows from rowIndex toward older rows whose
\* stored signal for the key equals sig, up to the first mismatch or the end
IsRunLength(store, rowIndex, key, sig, n) ==
    /\ n >= 1
    /\ rowIndex + n <= Len(store)
    /\ \A i \in (rowIndex + 1)..(rowIndex + n - 1) : store[i + 1].signals[key] = sig
    /\ \/ rowIndex + n = Len(store)
       \/ store[rowIndex + n + 1].signals[key] # sig

\* C3: for every row and every strategy whose signal there is BUY or SELL,
\* calculateStreak (static/ui.js, and the older script's and
\* strategypool.js's) returns the number of consecutive rows from rowIndex
\* toward older dates carrying that signal, between 1 and rows - rowIndex.
C3_StreakIsRunLength ==
    \A r \in Rows : \A c \in Columns :
        LET cell == CellAt(r, c) IN
        cell.sig \in {"BUY", "SELL"} =>
            /\ currentDataStore[r].signals[cell.key] = cell.sig
            /\ IsRunLength(currentDataStore, r - 1, cell.key, cell.sig, cell.streak)
            /\ cell.streak >= 1
            /\ cell.streak <= Len(currentDataStore) - (r - 1)
            /\ calculateStreakLegacy(currentDataStore, cell.sig, r - 1, cell.key)
                   = cell.streak
            /\ calculateStreakPool(currentDataStore, cell.sig, r - 1, cell.key)
                   = cell.streak

\* a column BUY, BUY, BUY, SELL with streaks 3, 2, 1, 1
C3_Witness ==
    /\ Len(matrixBody) = 4
    /\ \E c \in Columns :
          /\ [r \in 1..4 |-> CellAt(r, c).sig] = <<"BUY", "BUY", "BUY", "SELL">>
          /\ [r \in 1..4 |-> CellAt(r, c).streak] = <<3, 2, 1, 1>>

----------------------------------------------------------------------------
\* C4: the streak of every cell whose signal is HOLD, stored or absent, is 1.
C4_HoldStreakIsOne ==
    \A r \in Rows : \A c \in Columns :
        CellAt(r, c).sig = "HOLD" => CellAt(r, c).streak = 1

----------------------------------------------------------------------------
PulseOf(sig) == IF sig = "BUY" THEN "pulse-buy" ELSE "pulse-sell"

\* C5: with minStreak = 3 and strongStreak = 5, a BUY or SELL cell of the
\* newest row is NONE for streak 1 or 2, NOTABLE for 3 or 4, STRONG from 5
\* on; a HOLD cell is NONE whatever its streak.
C5_AlertThresholds ==
    (CONFIG.minStreak = 3 /\ CONFIG.strong_Streak = 5 /\ Len(matrixBody) > 0) =>
        \A c \in Columns :
            LET cell == CellAt(1, c) IN
            /\ (cell.sig \in {"BUY", "SELL"} /\ cell.streak \in {1, 2}) =>
                   (cell.alertClass = "" /\ cell.prefix = "")
            /\ (cell.sig \in {"BUY", "SELL"} /\ cell.streak \in {3, 4}) =>
                   (cell.alertClass = PulseOf(cell.sig) /\ cell.prefix = "sparkles")
            /\ (cell.sig \in {"BUY", "SELL"} /\ cell.streak >= 5) =>
                   (cell.alertClass = PulseOf(cell.sig) /\ cell.prefix = "fire")
            /\ cell.sig = "HOLD" => (cell.alertClass = "" /\ cell.prefix = "")

\* a newest row with a STRONG cell of streak 5 next to a NOTABLE cell
C5_Witness ==
    /\ Len(matrixBody) >= 5
    /\ \E c1, c2 \in Columns :
          /\ CellAt(1, c1).streak = 5 /\ CellAt(1, c1).prefix = "fire"
          /\ CellAt(1, c2).streak \in {3, 4} /\ CellAt(1, c2).prefix = "sparkles"

\* C6: every cell of a row other than the newest carries no alert class and
\* no prefix, whatever its signal and streak.
C6_AlertOnlyOnNewestRow ==
    \A r \in Rows : \A c \in Columns :
        r > 1 => (CellAt(r, c).alertClass = "" /\ CellAt(r, c).prefix = "")

\* an older row with a BUY or SELL streak that reaches minStreak
C6_Witness ==
    \E r \in Rows : \E c \in Columns :
        /\ r > 1
        /\ CellAt(r, c).sig \in {"BUY", "SELL"}
        /\ CellAt(r, c).streak >= CONFIG.minStreak

----------------------------------------------------------------------------
ColumnOf(key) == CHOOSE c \in Columns : headerRow[c].key = key

C8_StableRanking ==
    Rendered =>
        \A i, j \in 1..Len(InputList) :
            (i < j /\ ReturnOrZero(InputList[i].perf) = ReturnOrZero(InputList[j].perf)) =>
                ColumnOf(InputList[i].strategy_class) < ColumnOf(InputList[j].strategy_class)

\* B with a null annual_return listed before A with annual_return 0, and a
\* third, better strategy listed last: B stays before A
C8_Witness ==
    /\ Rendered
    /\ Len(InputList) = 3
    /\ InputList[1].strategy_class = "B" /\ InputList[1].perf = Perf(None)
    /\ InputList[2].strategy_class = "A" /\ InputList[2].perf = Perf(Some(0))
    /\ ReturnOrZero(InputList[3].perf) > 0
    /\ HeaderKeys = <<InputList[3].strategy_class, "B", "A">>

----------------------------------------------------------------------------
Permuted(list, q) == [i \in 1..Len(list) |-> list[q[i]]]
KeysOf(strategies) == [c \in 1..Len(strategies) |-> strategies[c].key]
DistinctReturns(list) ==
    \A i, j \in 1..Len(list) :
        i # j => ReturnOrZero(list[i].perf) # ReturnOrZero(list[j].perf)

\* C9 as stated: every permutation of the input list yields the same
\* sequence of columns.
C9_OrderIndependent ==
    Rendered =>
        \A q \in Permutations(1..Len(InputList)) :
            KeysOf(rankStrategies(Permuted(InputList, q))) = HeaderKeys

\* C9, amended: every permutation of an input list whose annual_return
\* values (null and missing as zero) are pairwise distinct yields the same
\* sequence of columns.
C9_OrderIndependentWithoutTies ==
    (Rendered /\ DistinctReturns(InputList)) =>
        \A q \in Permutations(1..Len(InputList)) :
            KeysOf(rankStrategies(Permuted(InputList, q))) = HeaderKeys

\* three strategies with distinct returns that the ranking reorders
C9_Witness ==
    /\ Rendered
    /\ Len(InputList) = 3
    /\ DistinctReturns(InputList)
    /\ HeaderKeys # [i \in 1..3 |-> InputList[i].strategy_class]

----------------------------------------------------------------------------
ArrayOrEmpty(opt) == IF IsArray(opt) THEN opt[1] ELSE <<>>

\* the calendar dates of all bars of all series that carry an array
InputDates ==
    LET list == ArrayOrEmpty(signals) IN
    UNION { {CalendarDate(ArrayOrEmpty(list[i].equity_df)[j].date)
                : j \in 1..Len(ArrayOrEmpty(list[i].equity_df))}
            : i \in 1..Len(list) }

\* C10: the row dates of the output matrix are exactly the calendar dates of
\* the bars of the series that carry an array, each in one row.
C10_RowCompleteness ==
    pc = "rendered" =>
        /\ {matrixBody[r].date : r \in Rows} = InputDates
        /\ Len(matrixBody) = Cardinality(InputDates)
        /\ Rendered =>
              [r \in 1..Len(currentDataStore) |-> currentDataStore[r].date]
                  = [r \in Rows |-> matrixBody[r].date]

\* series A with a date-only bar and a bar with a time of day on the same
\* day, series B with a bar on another day: two rows
C10_Witness ==
    /\ Rendered
    /\ Len(matrixBody) = 2
    /\ IsArray(InputList[1].equity_df) /\ IsArray(InputList[2].equity_df)
    /\ Len(InputList[1].equity_df[1]) = 2
    /\ InputList[1].equity_df[1][1].date = Day(1)
    /\ InputList[1].equity_df[1][2].date = WithTime(Day(1))
    /\ Len(InputList[2].equity_df[1]) = 1
    /\ InputList[2].equity_df[1][1].date = Day(2)

----------------------------------------------------------------------------
\* a is lexicographically greater than b
LexGreater(a, b) ==
    \/ \E k \in 1..Len(a) :
          /\ k <= Len(b)
          /\ SubSeq(a, 1, k - 1) = SubSeq(b, 1, k - 1)
          /\ a[k] > b[k]
    \/ Len(a) > Len(b) /\ SubSeq(a, 1, Len(b)) = b

\* C11: in the stored and in the displayed matrix, of every two adjacent
\* rows the earlier one carries the lexicographically greater date.
C11_RowsStrictlyDescending ==
    /\ \A r \in 1..(Len(currentDataStore) - 1) :
          LexGreater(currentDataStore[r].date, currentDataStore[r + 1].date)
    /\ \A r \in 1..(Len(matrixBody) - 1) :
          LexGreater(matrixBody[r].date, matrixBody[r + 1].date)

\* bars given oldest first, the newer one with a time of day, come out
\* newest first
C11_Witness ==
    /\ Rendered
    /\ IsArray(InputList[1].equity_df)
    /\ Len(InputList[1].equity_df[1]) = 2
    /\ InputList[1].equity_df[1][1].date = WithTime(Day(1))
    /\ InputList[1].equity_df[1][2].date = Day(2)
    /\ [r \in Rows |-> matrixBody[r].date] = <<Day(2), Day(1)>>

----------------------------------------------------------------------------
RECURSIVE Flatten(_)
Flatten(seqs) == IF seqs = <<>> THEN <<>> ELSE Head(seqs) \o Flatten(Tail(seqs))

\* the bars of an input list in the order the build visits them
ProcessedBars(list) ==
    Flatten([i \in 1..Len(list) |-> ArrayOrEmpty(list[i].equity_df)])

OnDate(bars, date) == SelectSeq(bars, LAMBDA b : CalendarDate(b.date) = date)
WithClose(bars) == SelectSeq(bars, LAMBDA b : b.close # None)

\* thousandths rounded half up to hundredths
Hundredths(t) == CHOOSE h \in 0..(t \div 10 + 1) : 10 * h - 5 <= t /\ t < 10 * h + 5

\* the price of a date: the close of the last processed bar of that date
\* with a close, 0.00 when no bar of the date has one
PriceOfDate(list, date) ==
    LET closes == WithClose(OnDate(ProcessedBars(list), date)) IN
    IF closes = <<>> THEN 0 ELSE Hundredths(closes[Len(closes)].close[1])

\* C12: the price of every row is the close of the last processed bar of
\* its date that has a non-null close, and 0.00 only when no bar of the
\* date has one.
C12_PriceLastWriteWins ==
    Rendered =>
        \A r \in 1..Len(currentDataStore) :
            /\ currentDataStore[r].price
                   = PriceOfDate(InputList, currentDataStore[r].date)
            /\ matrixBody[r].price = currentDataStore[r].price

----------------------------------------------------------------------------
\* bars j < k of one series on the same calendar date, k the last of them
IsDuplicateWithLast(bars, j, k) ==
    /\ j < k
    /\ CalendarDate(bars[j].date) = CalendarDate(bars[k].date)
    /\ IsLastBarOfDate(bars, k)

StoreRowOf(date) == CHOOSE r \in 1..Len(currentDataStore) : currentDataStore[r].date = date

\* C17: when a series holds several bars of one calendar date D, the signal
\* recorded for that strategy in row D is the decoded signal of the last of
\* them in input order.
C17_LastDuplicateWins ==
    Rendered =>
        \A i \in 1..Len(InputList) :
            IsArray(InputList[i].equity_df) =>
                LET bars == InputList[i].equity_df[1] IN
                \A j, k \in 1..Len(bars) :
                    IsDuplicateWithLast(bars, j, k) =>
                        /\ \E r \in 1..Len(currentDataStore) :
                              currentDataStore[r].date = CalendarDate(bars[k].date)
                        /\ currentDataStore[StoreRowOf(CalendarDate(bars[k].date))]
                                .signals[InputList[i].strategy_class]
                               = SignalOfCode(bars[k].signal)

----------------------------------------------------------------------------
\* the key under which the build records the bars of the series at position
\* i of its argument: that of the column at position i
FilingKey(i) == headerRow[i].key

StoredValues ==
    {currentDataStore[r].signals[k] : r \in 1..Len(currentDataStore), k \in StrategyKeys}

\* C18: the signal recorded for a bar is BUY for wire code 1, SELL for -1
\* and HOLD for every other code, absent and unknown ones included (the
\* last bar of a date is the one whose record remains); the older script
\* decodes alike; a row's signals mapping holds nothing but BUY, SELL and
\* HOLD under the keys that were written.
C18_SignalDecoding ==
    Rendered =>
        /\ \A i \in 1..Len(InputList) :
              IsArray(InputList[i].equity_df) =>
                  LET bars == InputList[i].equity_df[1] IN
                  \A j \in 1..Len(bars) :
                      /\ decodeSignalLegacy(bars[j].signal) = SignalOfCode(bars[j].signal)
                      /\ IsLastBarOfDate(bars, j) =>
                            currentDataStore[StoreRowOf(CalendarDate(bars[j].date))]
                                .signals[FilingKey(i)]
                              = SignalOfCode(bars[j].signal)
        /\ StoredValues \subseteq {"BUY", "SELL", "HOLD", "undefined"}
        /\ \A r \in Rows : \A c \in Columns :
              CellAt(r, c).sig \in {"BUY", "SELL", "HOLD"}

\* a payload with the codes 1, -1 and an unknown code, recorded as BUY,
\* SELL and HOLD
C18_Witness ==
    /\ Rendered
    /\ Len(InputList) = 2
    /\ InputList[1].equity_df
           = Some(<<Bar(Day(1), Some(10237), Some(1)), Bar(Day(2), Some(10237), Some(-1))>>)
    /\ InputList[2].equity_df = Some(<<Bar(Day(1), Some(20482), Some(2))>>)
    /\ currentDataStore[2].signals[FilingKey(1)] = "BUY"
    /\ currentDataStore[1].signals[FilingKey(1)] = "SELL"
    /\ currentDataStore[2].signals[FilingKey(2)] = "HOLD"

----------------------------------------------------------------------------
\* C13: after renderSignalMatrix was called with an empty list of series
\* and returned, the column list, the stored matrix and the displayed
\* matrix are empty.
C13_EmptyInputYieldsEmpty ==
    (pc = "rendered" /\ signals = Some(<<>>)) =>
        /\ headerRow = <<>>
        /\ currentDataStore = <<>>
        /\ matrixBody = <<>>

----------------------------------------------------------------------------
\* the latest input: the argument of the most recent call
LatestList == ArrayOrEmpty(signals)
LatestKeys == {LatestList[i].strategy_class : i \in 1..Len(LatestList)}

\* some bar of the latest input on that date decodes to that signal
FromLatestInput(date, sig) ==
    \E i \in 1..Len(LatestList) :
        \E j \in 1..Len(ArrayOrEmpty(LatestList[i].equity_df)) :
            LET bar == LatestList[i].equity_df[1][j] IN
            CalendarDate(bar.date) = date /\ SignalOfCode(bar.signal) = sig

\* C15: after every renderSignalMatrix call, whatever calls preceded it,
\* the columns are those of the latest input and every row and every
\* signal of currentDataStore comes from a bar of the latest input.
C15_RebuiltFromScratch ==
    pc = "rendered" =>
        /\ {headerRow[c].key : c \in Columns} = LatestKeys
        /\ {currentDataStore[r].date : r \in 1..Len(currentDataStore)} = InputDates
        /\ \A r \in 1..Len(currentDataStore) : \A k \in StrategyKeys :
              currentDataStore[r].signals[k] # "undefined" =>
                  FromLatestInput(currentDataStore[r].date,
                                  currentDataStore[r].signals[k])

----------------------------------------------------------------------------
\* what renderSignalMatrix(arg) leaves on a new UI object
FreshRender(arg) ==
    IF ~ IsArray(arg) \/ Len(arg[1]) = 0
    THEN [header |-> <<>>, store |-> <<>>, body |-> <<>>]
    ELSE LET strategies == rankStrategies(arg[1])
             store == sortRows(buildMatrixMap(<<>>, strategies, arg[1], 1))
         IN  [header |-> strategies, store |-> store,
              body |-> renderRows(store, strategies)]

\* C16: under every interleaving of overlapping loadData calls, after each
\* call's rendering step the displayed rows are those built from the
\* payload rendered last alone: their dates are that payload's dates and
\* every BUY or SELL shown comes from one of its bars.
C16_LastFetchWins ==
    pc = "rendered" =>
        /\ matrixBody = FreshRender(signals).body
        /\ {matrixBody[r].date : r \in Rows} = InputDates
        /\ \A r \in Rows : \A c \in 1..Len(matrixBody[r].cells) :
              LET cell == matrixBody[r].cells[c] IN
              /\ cell.key \in LatestKeys
              /\ cell.sig \in {"BUY", "SELL"} =>
                     FromLatestInput(matrixBody[r].date, cell.sig)

\* Y was requested after X, no call failed and none is pending, and the
\* response of X was rendered last: the rows of Y, which shared a date
\* with X's, are gone
C16_Witness ==
    /\ pc = "rendered"
    /\ inflight = <<>>
    /\ ~ errorLogged
    /\ currentSymbol = "Y"
    /\ signals = SignalOfX
    /\ [r \in Rows |-> matrixBody[r].date] = <<Day(2), Day(1)>>

----------------------------------------------------------------------------
\* C19: whatever was rendered before, renderSignalMatrix on an input leaves
\* the columns, the rows with their prices and signals, and the streaks and
\* alert marks of every cell that the same call leaves on a new UI object.
C19_Deterministic ==
    pc = "rendered" =>
        /\ headerRow = FreshRender(signals).header
        /\ currentDataStore = FreshRender(signals).store
        /\ matrixBody = FreshRender(signals).body

----------------------------------------------------------------------------
\* C20: once no loadData call is pending and none has failed, the report
\* and the matrix on display are those of the symbol requested last,
\* currentSymbol, in whichever order the responses arrived.
C20_SupersededDiscarded ==
    (inflight = <<>> /\ ~ errorLogged /\ currentSymbol # "") =>
        /\ kellySymbol = toUpperCase(currentSymbol)
        /\ signals = ResponseOf(toUpperCase(currentSymbol)).signal

----------------------------------------------------------------------------
\* every series of the latest input carries the perf the ranking reads
AllHavePerf == \A i \in 1..Len(LatestList) : LatestList[i].perf # None

\* C14: when the response holds a list of series, some of them without an
\* array of bars, handling it raises nothing, and every date carried by a
\* bar of a series with an array is the date of exactly one displayed row.
C14_BadSeriesSkipped ==
    (pc # "fetched" /\ IsArray(signals) /\ AllHavePerf) =>
        /\ ~ errorLogged
        /\ {matrixBody[r].date : r \in Rows} = InputDates
        /\ Len(matrixBody) = Cardinality(InputDates)

----------------------------------------------------------------------------
\* C21: under every interleaving of overlapping loadData calls, the cells
\* on display after a rendering step were computed in that step: their
\* rows are the rows of currentDataStore, their columns the header's, both
\* built from the payload of that step, and every streak is the run length
\* in that stored matrix.
C21_StreaksFromSameCycle ==
    (pc = "rendered" /\ matrixBody # <<>>) =>
        /\ headerRow = FreshRender(signals).header
        /\ currentDataStore = FreshRender(signals).store
        /\ [r \in Rows |-> matrixBody[r].date]
               = [r \in 1..Len(currentDataStore) |-> currentDataStore[r].date]
        /\ \A r \in Rows :
              /\ [c \in 1..Len(matrixBody[r].cells) |-> matrixBody[r].cells[c].key]
                     = HeaderKeys
              /\ \A c \in Columns :
                    LET cell == CellAt(r, c) IN
                    /\ currentDataStore[r].signals[cell.key] \in {cell.sig, "undefined"}
                    /\ IsRunLength(currentDataStore, r - 1, cell.key, cell.sig,
                                   cell.streak)

\* the response of Y was rendered, with a streak of two days, while the
\* call for X still awaits its response
C21_Witness ==
    /\ pc = "rendered"
    /\ signals = SignalOfY
    /\ \E i \in 1..Len(inflight) : inflight[i].symbol = "X"
    /\ HeaderKeys = <<"C">>
    /\ CellAt(1, 1).sig = "BUY"
    /\ CellAt(1, 1).streak = 2

----------------------------------------------------------------------------
\* C24: handling a response leaves the list of series it was given as it
\* was: the same elements in the same order, with the same fields.
C24_InputsReadOnly == [][pc = "fetched" => signals' = signals]_vars

----------------------------------------------------------------------------
DisplayedColumn(c) == [r \in Rows |-> CellAt(r, c).sig]

\* C26: two columns that display the same signals row by row, an absent
\* entry being displayed as HOLD, carry the same streak in every row.
C26_StreakFromDisplayedSignals ==
    \A c1, c2 \in Columns :
        DisplayedColumn(c1) = DisplayedColumn(c2) =>
            \A r \in Rows : CellAt(r, c1).streak = CellAt(r, c2).streak

----------------------------------------------------------------------------
\* C27: #loadingTxt is shown exactly while some loadData call awaits its
\* response.
C27_LoadingIndicator == loadingTxt = (inflight # <<>>)

----------------------------------------------------------------------------
\* C22: calculateStreak called with any integer rowIndex and any key, known
\* to the matrix or not, raises nothing and returns an integer of at least
\* 1, in static/ui.js and in the older script.
C22_PermissiveStreak ==
    streakResult # None =>
        /\ ~ streakResult[1].ui.raised
        /\ streakResult[1].ui.value >= 1
        /\ ~ streakResult[1].legacy.raised
        /\ streakResult[1].legacy.value >= 1

\* C23: a bar whose date is malformed (an unparseable string, a value that
\* is no string, or a missing one) yields a row that carries that value
\* unmodified, and the call, the descending sort of the rows included, ends
\* without raising whatever the other rows are.
C23_MalformedDatesPassThrough ==
    (pc # "fetched" /\ IsArray(signals)) =>
        /\ pc = "rendered"
        /\ \A i \in 1..Len(InputList) : IsArray(InputList[i].equity_df) =>
              \A j \in 1..Len(InputList[i].equity_df[1]) :
                 LET date == InputList[i].equity_df[1][j].date IN
                 date \in MalformedDates =>
                    \E r \in 1..Len(currentDataStore) : currentDataStore[r].date = date

\* the series of the input that have a bar filed under the date of row r
SeriesOnRow(r) ==
    {i \in 1..Len(InputList) :
        /\ IsArray(InputList[i].equity_df)
        /\ \E j \in 1..Len(InputList[i].equity_df[1]) :
              barDate(InputList[i].equity_df[1][j]) = currentDataStore[r].date}

\* the entries written in the signals mapping of row r
EntriesOfRow(r) == {k \in StrategyKeys : currentDataStore[r].signals[k] # "undefined"}

NamesDistinct ==
    \A i, j \in 1..Len(InputList) :
        i # j => InputList[i].strategy_name # InputList[j].strategy_name

\* C25: when the strategy_name values of the input are pairwise distinct,
\* every strategy has a column of its own and an entry of its own in the
\* signals mapping of each row it has a bar on, also when two strategies
\* share their strategy_class.
C25_DistinctStrategiesOwnColumns ==
    (Rendered /\ NamesDistinct) =>
        /\ \A c1, c2 \in Columns : c1 # c2 => headerRow[c1].key # headerRow[c2].key
        /\ \A r \in 1..Len(currentDataStore) :
              Cardinality(EntriesOfRow(r)) = Cardinality(SeriesOnRow(r))

----------------------------------------------------------------------------
\* the stored list, and the symbols of a list
StoredHistory == parseHistory(history)
SymbolsOf(list) == [i \in 1..Len(list) |-> list[i].symbol]
IsInjective(f) == \A i, j \in DOMAIN f : i # j => f[i] # f[j]

\* the entries of the list before, other than the one saved again, are in
\* list after in the order they had, behind the saved one, as far as
\* MAX_HISTORY lets them in
KeepsOrderBehind(before, after, stock) ==
    LET others == SelectSeq(before, LAMBDA h : h.symbol # stock.symbol)
    IN  /\ Len(after) = (IF Len(others) + 1 > MAX_HISTORY THEN MAX_HISTORY
                         ELSE Len(others) + 1)
        /\ \A i \in 2..Len(after) : after[i] = others[i - 1]

\* C28: after any sequence of saveHistory calls from an empty store, the
\* stored history holds at most MAX_HISTORY (6) entries, no two of them with
\* the same symbol, its first entry is the stock saved last, and each call
\* leaves the other entries behind it in the order they had, so that the
\* entries are ordered by the recency of their last save.
C28_SearchHistory ==
    /\ [](/\ Len(StoredHistory) <= MAX_HISTORY
          /\ IsInjective(SymbolsOf(StoredHistory))
          /\ savedStock # None => StoredHistory # <<>> /\ StoredHistory[1] = savedStock[1])
    /\ [][savedStock' # None =>
            KeepsOrderBehind(StoredHistory, parseHistory(history'), savedStock'[1])]_vars

\* a full history whose first symbol was saved again under its other name
\* after the six other symbols had pushed it out
C28_Witness ==
    /\ Len(StoredHistory) = MAX_HISTORY
    /\ savedStock = Some([symbol |-> "S1", name |-> "m", market |-> "SH"])
    /\ SymbolsOf(StoredHistory) = <<"S1", "S7", "S6", "S5", "S4", "S3">>

----------------------------------------------------------------------------
BoxVisible == boxDisplay = "block" /\ boxItems # <<>>

\* C29: whenever the suggestion box is visible with n >= 1 items,
\* selectedIndex lies in -1..n-1; it is -1 right after the box is shown or
\* filled anew; ArrowDown moves it to (selectedIndex + 1) mod n and ArrowUp
\* to (selectedIndex - 1) mod n; and Enter confirms an item, the one at
\* selectedIndex, only when selectedIndex > -1.
C29_SelectionIndex ==
    /\ [](BoxVisible => selectedIndex \in (-1)..(Len(boxItems) - 1))
    /\ [][/\ (boxDisplay' = "block" /\ (boxDisplay # "block" \/ boxItems' # boxItems))
               => selectedIndex' = -1
          /\ (BoxVisible /\ keyEvent' = "ArrowDown")
               => selectedIndex' = (selectedIndex + 1) % Len(boxItems)
          /\ (BoxVisible /\ keyEvent' = "ArrowUp")
               => selectedIndex' = (selectedIndex - 1) % Len(boxItems)
          /\ (keyEvent' = "Enter" /\ (savedStock' # savedStock \/ history' # history))
               => /\ BoxVisible
                  /\ selectedIndex > -1
                  /\ savedStock' = Some(boxItems[selectedIndex + 1])
          /\ (keyEvent' = "Enter" /\ BoxVisible /\ selectedIndex > -1)
               => /\ savedStock' = Some(boxItems[selectedIndex + 1])
                  /\ inputValue' = boxItems[selectedIndex + 1].symbol]_vars

\* ArrowUp has wrapped the selection from the first item to the last
C29_Witness ==
    /\ BoxVisible
    /\ Len(boxItems) = 2
    /\ keyEvent = "ArrowUp"
    /\ selectedIndex = 1

\* C30: a search request is issued only for a non-empty query that no input
\* event has followed for 250 ms; every input event cancels the pending
\* timer; and no request is issued while an IME composition is in progress.
C30_SearchDebounce ==
    [][Len(pendingSearches') > Len(pendingSearches) =>
          /\ pendingSearches'[Len(pendingSearches')] # ""
          /\ sinceInput >= DebounceTicks
          /\ ~ isComposing]_vars

====
